---------------------------- MODULE Spec2Model ----------------------------
(***************************************************************************)
(* The APOD publishing service (src/src/main.py, src/src/models.py) as a   *)
(* state machine: the scheduler loop of main(), the extraction loop of     *)
(* get_last_issues(), create_issue() on the Issue table, get_unpublished() *)
(* and the delivery loop of publish_issues().                              *)
(*                                                                         *)
(* Python strings are modelled as sequences of tokens, so that the prefix, *)
(* suffix and substring operations of the code are computed, not assumed:  *)
(* 'https://www.astronet.ru/db/1' is <<"https", "://www.astronet.ru",      *)
(* "/db/1">>.  None is the one-token sequence <<"<None>">> and '' is <<>>. *)
(*                                                                         *)
(* Three specifications share the actions.  Spec runs the service on       *)
(* listings of well-formed blocks of every date (ListedBlocks), FairSpec   *)
(* is Spec with the loop kept running, and ExtractSpec runs it on listings *)
(* of blocks of every shape, detail page and language (TitleBlocks).  The  *)
(* process starts on a new table or on one with a row left unpublished by  *)
(* an earlier process (StoredBefore).                                      *)
(***************************************************************************)
EXTENDS Integers, Sequences, FiniteSets, TLC

VARIABLES
    pc,        \* where main() is: fetch, parse, tags, create, select, publish, sending, ping,
               \* sleep, terminated
    store,     \* the rows of table issue, in insertion order (row i has id i)
    listing,   \* the listing response of this cycle: [exc, status, content, ntags]
    retries,   \* get_last_issues: the local `retries`
    blocks,    \* the kinds (BlockKind) of the title blocks processed so far
    lastPage,  \* the detail page of the title block processed last
    issues,    \* get_last_issues: the local list `issues`; main: `issues`
    idx,       \* main: position of `for issue in issues`
    createLog, \* what each create_issue call of this cycle did
    queue,     \* publish_issues: the rows of sorted(unpublished) not yet visited
    inflight,  \* the ids of the rows whose delivery call was made and has not returned
    sent,      \* the delivery calls of this cycle, in call order: [id, kind, media, text, ok]
    exc        \* the exception that reached main's try block in this cycle, or "none"

vars == <<pc, store, listing, retries, blocks, lastPage, issues, idx, createLog, queue, inflight, sent, exc>>

---------------------------------------------------------------------------
(* Bounds of the model. *)

\* title blocks in one listing page
MaxTags == 2
\* distinct calendar dates a listing can show
NumDates == 2

---------------------------------------------------------------------------
(* Python values. *)

None == <<"<None>">>

Truthy(s) == s # None /\ s # <<>>

\* str.removeprefix
removeprefix(s, p) ==
    IF Len(s) >= Len(p) /\ SubSeq(s, 1, Len(p)) = p
    THEN SubSeq(s, Len(p) + 1, Len(s))
    ELSE s

\* str.startswith
startswith(s, p) == Len(s) >= Len(p) /\ SubSeq(s, 1, Len(p)) = p

\* the tokens that contain the text 'youtube'
YoutubeTokens == {"https://www.youtube.com/embed/", "youtube"}

\* 'youtube' in s
ContainsYoutube(s) == \E i \in DOMAIN s : s[i] \in YoutubeTokens

\* The classes an exception class is an instance of (requests.exceptions,
\* httpx, builtins), as `except` matches them.
ClassesOf(e) ==
    CASE e = "HTTPError"           -> {"HTTPError", "RequestException", "Exception"}
      [] e = "ConnectTimeout"      -> {"ConnectTimeout", "ConnectionError", "Timeout", "RequestException", "Exception"}
      [] e = "ConnectionError"     -> {"ConnectionError", "RequestException", "Exception"}
      [] e = "ReadTimeout"         -> {"ReadTimeout", "Timeout", "RequestException", "Exception"}
      [] e = "httpx.ConnectError"  -> {"httpx.ConnectError", "httpx.TransportError", "httpx.HTTPError", "Exception"}
      [] e = "httpx.ConnectTimeout" -> {"httpx.ConnectTimeout", "httpx.TimeoutException", "httpx.TransportError", "httpx.HTTPError", "Exception"}
      [] e = "IntegrityError"      -> {"IntegrityError", "DatabaseError", "PeeweeException", "Exception"}
      [] e = "OperationalError"    -> {"OperationalError", "DatabaseError", "PeeweeException", "Exception"}
      [] OTHER                     -> {e, "Exception"}

\* `except <handled>` catches e
Catches(handled, e) == ClassesOf(e) \cap handled # {}

---------------------------------------------------------------------------
(* The documents the origin site can serve. *)

SitePrefix == <<"://www.astronet.ru">>
ImagePrefix == <<"https://images.astronet.ru/pubd/">>
EmbedPrefix == <<"https://www.youtube.com/embed/">>

Hrefs ==
    {<<"https">> \o SitePrefix \o <<"/db/1">>,
     <<"http">> \o SitePrefix \o <<"/db/2">>,
     <<"/db/2">>}

PubDates == 1..NumDates

\* <img> sources of a detail page, in document order
ImgLists ==
    { <<>>,
      <<ImagePrefix \o <<"a.jpg">> >>,
      <<<<"https://www.astronet.ru/i/">> \o <<"x.gif">>, ImagePrefix \o <<"a.jpg">> >>,
      <<ImagePrefix \o <<"a.jpg">>, ImagePrefix \o <<"b.jpg">> >> }

\* <iframe> sources of a detail page, in document order
IframeLists ==
    { <<>>,
      <<EmbedPrefix \o <<"v1">> \o <<"?rel=0">> >>,
      <<EmbedPrefix \o <<"v1">> \o <<"?rel=0">>, EmbedPrefix \o <<"v2">> >> }

\* a page whose one image has a file name with the text 'youtube' in it
NamedImagePage ==
    [fetch |-> "ok", content |-> "ok", imgs |-> <<ImagePrefix \o <<"youtube", ".jpg">> >>,
     iframes |-> <<>>]

DetailPages ==
    [fetch : {"ok"}, content : {"ok"}, imgs : ImgLists, iframes : IframeLists]
    \cup [fetch : {"ok"}, content : {"empty", "no_region"}, imgs : {<<>>}, iframes : {<<>>}]
    \cup [fetch : {"ConnectionError"}, content : {"empty"}, imgs : {<<>>}, iframes : {<<>>}]

\* raw title texts; " " is a run of whitespace
Titles == {<<" ", "t1", " ">>}

\* raw texts of abstract blocks: Russian words, English words, text too short
\* to detect; " " is a run of whitespace
Bodies == {<<"ru", " ", "b1">>, <<"en", " ", "b1">>, <<"??">>}

PreviewSrc == <<"https://www.astronet.ru/i/", "preview.gif">>

\* A title block of the listing with the abstract block that follows it.
\* shape: which of the elements the code dereferences are there.
\* detail pages with exactly one qualifying image, or exactly one qualifying embed
PlainDetails ==
    {d \in DetailPages :
        /\ d.fetch = "ok" /\ d.content = "ok"
        /\ Len(d.imgs) + Len(d.iframes) = 1
        /\ \A i \in DOMAIN d.imgs : d.imgs[i][1] = ImagePrefix[1]}

\* a detail page with no image and no embed
BarePage == [fetch |-> "ok", content |-> "ok", imgs |-> <<>>, iframes |-> <<>>]

\* TitleBlocks, all of one date: the well-formed Russian blocks of every link
\* and preview whose detail page is a plain or a bare one; those of one link
\* with every detail page; blocks in English and in an undetectable language;
\* the malformed blocks; and a block whose image is named after a video site.
TitleBlocks ==
    [shape : {"ok"}, href : Hrefs, date : {1}, title : Titles, body : {<<"ru", " ", "b1">>},
     preview : {None, PreviewSrc}, detail : PlainDetails \cup {BarePage}]
    \cup [shape : {"ok"}, href : {<<"https">> \o SitePrefix \o <<"/db/1">>}, date : {1},
          title : Titles, body : {<<"ru", " ", "b1">>},
          preview : {None, PreviewSrc}, detail : DetailPages]
    \cup [shape : {"ok"}, href : {<<"https">> \o SitePrefix \o <<"/db/1">>}, date : {1},
          title : Titles, body : {<<"en", " ", "b1">>, <<"??">>},
          preview : {None}, detail : PlainDetails]
    \cup [shape : {"no_link", "no_date", "no_body"}, href : {<<"/db/1">>}, date : {1},
          title : Titles, body : {<<"ru", " ", "b1">>}, preview : {None}, detail : {BarePage}]
    \cup [shape : {"ok"}, href : {<<"/db/2">>}, date : {1}, title : Titles,
          body : {<<"ru", " ", "b1">>}, preview : {None}, detail : {NamedImagePage}]

\* a detail page with one qualifying image and nothing else
ImagePage ==
    [fetch |-> "ok", content |-> "ok", imgs |-> <<ImagePrefix \o <<"a.jpg">> >>, iframes |-> <<>>]

\* a detail page with one qualifying embed and nothing else
EmbedPage ==
    [fetch |-> "ok", content |-> "ok", imgs |-> <<>>,
     iframes |-> <<EmbedPrefix \o <<"v1">> \o <<"?rel=0">> >>]

\* the block of /db/2 as the site shows it after an edit of its title, its
\* abstract, its date and its media
RetitledBlock ==
    [shape |-> "ok", href |-> <<"/db/2">>, date |-> NumDates,
     title |-> <<"t2", " ">>, body |-> <<"ru", " ", "b2">>, preview |-> None,
     detail |-> ImagePage]

\* ListedBlocks: the well-formed Russian blocks of every link and date with
\* an image; for one link, a block with a video embed, a block with no media
\* at all and a block in English; and the retitled block.
ListedBlocks ==
    [shape : {"ok"}, href : Hrefs, date : PubDates, title : Titles, body : {<<"ru", " ", "b1">>},
     preview : {None}, detail : {ImagePage}]
    \cup [shape : {"ok"}, href : {<<"/db/2">>}, date : {1}, title : Titles,
          body : {<<"ru", " ", "b1">>}, preview : {None}, detail : {EmbedPage, BarePage}]
    \cup [shape : {"ok"}, href : {<<"/db/2">>}, date : {1}, title : Titles,
          body : {<<"en", " ", "b1">>}, preview : {None}, detail : {ImagePage}]
    \cup {RetitledBlock}

---------------------------------------------------------------------------
(* The pure functions of the code. *)

Return(v) == [exc |-> "none", val |-> v]
Raise(e) == [exc |-> e, val |-> None]

Whitespace == {" "}

\* str.strip: leading and trailing whitespace removed
RECURSIVE lstrip(_)
lstrip(s) == IF s # <<>> /\ Head(s) \in Whitespace THEN lstrip(Tail(s)) ELSE s

RECURSIVE rstrip(_)
rstrip(s) ==
    IF s # <<>> /\ s[Len(s)] \in Whitespace THEN rstrip(SubSeq(s, 1, Len(s) - 1)) ELSE s

strip(s) == rstrip(lstrip(s))

\* ' '.join(text.split()): the words of the text, one space between them
NormalizeBody(s) == SelectSeq(s, LAMBDA w : w \notin Whitespace)

\* langdetect.detect on a normalized body
detect(body) ==
    IF body # <<>> /\ Head(body) \in {"ru", "en"} THEN Return(<<Head(body)>>)
    ELSE Raise("LangDetectException")

\* get_image_from_issue looking at the video embeds before the images
get_image_video_first(page) ==
    IF page.fetch # "ok" THEN Raise(page.fetch)
    ELSE IF page.content = "empty" THEN Return(None)
    ELSE IF page.content = "no_region" THEN Raise("AttributeError")
    ELSE
        LET vids == SelectSeq(page.iframes, LAMBDA x : startswith(x, EmbedPrefix))
            url_list ==
                IF Len(vids) = 0
                THEN SelectSeq(page.imgs, LAMBDA x : startswith(x, ImagePrefix))
                ELSE vids
        IN  IF Len(url_list) = 0 THEN Return(<<>>)
            ELSE IF Len(url_list) > 1 THEN Raise("ValueError")
            ELSE Return(url_list[1])

\* get_image_from_issue taking the first of several qualifying sources
get_image_first(page) ==
    IF page.fetch # "ok" THEN Raise(page.fetch)
    ELSE IF page.content = "empty" THEN Return(None)
    ELSE IF page.content = "no_region" THEN Raise("AttributeError")
    ELSE
        LET imgs == SelectSeq(page.imgs, LAMBDA x : startswith(x, ImagePrefix))
            url_list ==
                IF Len(imgs) = 0
                THEN SelectSeq(page.iframes, LAMBDA x : startswith(x, EmbedPrefix))
                ELSE imgs
        IN  IF Len(url_list) = 0 THEN Return(<<>>) ELSE Return(url_list[1])

\* main.py:47-72
get_image_from_issue(page) ==
    IF page.fetch # "ok" THEN Raise(page.fetch)
    ELSE IF page.content = "empty" THEN Return(None)
    ELSE IF page.content = "no_region" THEN Raise("AttributeError")
    ELSE
        LET imgs == SelectSeq(page.imgs, LAMBDA x : startswith(x, ImagePrefix))
            url_list ==
                IF Len(imgs) = 0
                THEN SelectSeq(page.iframes, LAMBDA x : startswith(x, EmbedPrefix))
                ELSE imgs
        IN  IF Len(url_list) = 0 THEN Return(<<>>)
            ELSE IF Len(url_list) > 1 THEN Raise("ValueError")
            ELSE Return(url_list[1])

\* main.py:97-102
IssueUrl(href) ==
    removeprefix(removeprefix(removeprefix(href, <<"https">>), <<"http">>), SitePrefix)

\* The statements of the try block of main.py:96-130 for one title block:
\* kind "append" (issues.append(issue)), "continue" (the language gate) or
\* "raise" (an exception leaves the try block).
TitleTagTry(tag) ==
    LET issue_url == IssueUrl(tag.href)
        image == get_image_from_issue(tag.detail)
        title == strip(tag.title)
        body_text == NormalizeBody(tag.body)
        body_lang == detect(body_text)
        skip(k, e) == [kind |-> k, exc |-> e, issue |-> <<>>]
    IN  IF tag.shape = "no_link" THEN skip("raise", "TypeError")
        ELSE IF tag.shape = "no_date" THEN skip("raise", "ValueError")
        ELSE IF image.exc # "none" THEN skip("raise", image.exc)
        ELSE IF tag.shape = "no_body" THEN skip("raise", "AttributeError")
        ELSE IF body_lang.exc # "none" THEN skip("raise", body_lang.exc)
        ELSE IF body_lang.val # <<"ru">> THEN skip("continue", "none")
        ELSE [kind |-> "append", exc |-> "none",
              issue |-> [title |-> title,
                         body |-> body_text,
                         issue_url |-> issue_url,
                         image_url |-> IF Truthy(image.val) THEN image.val ELSE tag.preview,
                         pub_date |-> tag.date]]

\* a loop over the title blocks that catches nothing
TagHandled_None == {}

\* the exception classes of `except Exception as err` at main.py:131
TagHandled == {"Exception"}

\* One iteration of `for tag in title_tags` (main.py:95-132): the try block
\* and its handler, which logs the exception and goes on.
TitleTagIteration(tag) ==
    LET r == TitleTagTry(tag)
    IN  IF r.kind = "raise" /\ Catches(TagHandled, r.exc)
        THEN [r EXCEPT !.kind = "logged"]
        ELSE r

---------------------------------------------------------------------------
(* The Issue table (models.py) and the functions of main.py on it. *)

\* an insert into a table whose issue_url is not UNIQUE
IssueCreate_NoUnique(db, issue, fault) ==
    IF fault THEN [exc |-> "OperationalError", db |-> db]
    ELSE IF issue.image_url = None THEN [exc |-> "IntegrityError", db |-> db]
    ELSE [exc |-> "none",
          db |-> Append(db, [id |-> Len(db) + 1,
                             title |-> issue.title,
                             body |-> issue.body,
                             issue_url |-> issue.issue_url,
                             image_url |-> issue.image_url,
                             pub_date |-> issue.pub_date,
                             published |-> FALSE])]

\* an insert that replaces the row of the same issue_url (INSERT OR REPLACE)
IssueCreate_Replace(db, issue, fault) ==
    IF fault THEN [exc |-> "OperationalError", db |-> db]
    ELSE IF issue.image_url = None THEN [exc |-> "IntegrityError", db |-> db]
    ELSE IF \E i \in DOMAIN db : db[i].issue_url = issue.issue_url
    THEN [exc |-> "none",
          db |-> [i \in DOMAIN db |->
                    IF db[i].issue_url = issue.issue_url
                    THEN [id |-> db[i].id,
                          title |-> issue.title,
                          body |-> issue.body,
                          issue_url |-> issue.issue_url,
                          image_url |-> issue.image_url,
                          pub_date |-> issue.pub_date,
                          published |-> FALSE]
                    ELSE db[i]]]
    ELSE [exc |-> "none",
          db |-> Append(db, [id |-> Len(db) + 1,
                             title |-> issue.title,
                             body |-> issue.body,
                             issue_url |-> issue.issue_url,
                             image_url |-> issue.image_url,
                             pub_date |-> issue.pub_date,
                             published |-> FALSE])]

\* models.Issue.create: INSERT into table issue.  image_url (models.py:16) is
\* NOT NULL and issue_url (models.py:15) is UNIQUE; `fault` is a failure of the
\* storage engine itself.  The new row gets the next rowid and published =
\* False (models.py:18).
IssueCreate(db, issue, fault) ==
    IF fault THEN [exc |-> "OperationalError", db |-> db]
    ELSE IF issue.image_url = None THEN [exc |-> "IntegrityError", db |-> db]
    ELSE IF \E i \in DOMAIN db : db[i].issue_url = issue.issue_url
    THEN [exc |-> "IntegrityError", db |-> db]
    ELSE [exc |-> "none",
          db |-> Append(db, [id |-> Len(db) + 1,
                             title |-> issue.title,
                             body |-> issue.body,
                             issue_url |-> issue.issue_url,
                             image_url |-> issue.image_url,
                             pub_date |-> issue.pub_date,
                             published |-> FALSE])]

\* the exception classes of the two handlers of create_issue (main.py:146, 149)
CreateHandled == {"IntegrityError", "Exception"}

\* main.py:137-150: what the call leaves in the table and what it raises to
\* its caller
create_issue(db, issue, fault) ==
    LET r == IssueCreate(db, issue, fault)
    IN  IF r.exc # "none" /\ Catches(CreateHandled, r.exc)
        THEN [exc |-> "none", db |-> r.db,
              outcome |-> IF r.exc = "IntegrityError" THEN "integrity" ELSE "error"]
        ELSE [exc |-> r.exc, db |-> r.db,
              outcome |-> IF r.exc = "none" THEN "created" ELSE "raised"]

\* a query for the unpublished row of the lowest id only
get_unpublished_First(db) ==
    {db[i] : i \in {j \in DOMAIN db : ~db[j].published /\ \A k \in 1..(j - 1) : db[k].published}}

\* main.py:153-154: the rows the query selects
get_unpublished(db) == {db[i] : i \in DOMAIN db} \ {r \in {db[i] : i \in DOMAIN db} : r.published}

\* the orders in which a query may return the rows of S
Orders(S) ==
    {f \in [1..Cardinality(S) -> S] : \A i, j \in 1..Cardinality(S) : i # j => f[i] # f[j]}

RECURSIVE InsertByDate(_, _)
InsertByDate(s, x) ==
    IF s = <<>> THEN <<x>>
    ELSE IF s[Len(s)].pub_date <= x.pub_date THEN Append(s, x)
    ELSE Append(InsertByDate(SubSeq(s, 1, Len(s) - 1), x), s[Len(s)])

\* the rows in the order the query returned them
Unsorted(s) == s

\* sorted(unpublished, key=lambda x: x.pub_date), main.py:160: a stable sort
RECURSIVE SortedByPubDate(_)
SortedByPubDate(s) ==
    IF s = <<>> THEN <<>>
    ELSE InsertByDate(SortedByPubDate(SubSeq(s, 1, Len(s) - 1)), s[Len(s)])

\* a save whose UPDATE has no WHERE clause
Save_NoWhere(db, row) == [i \in DOMAIN db |-> [row EXCEPT !.id = db[i].id]]

\* a save that writes nothing
Save_Skipped(db, row) == db

\* issue.save(), main.py:193: UPDATE of the row with the object's id
Save(db, row) == [i \in DOMAIN db |-> IF db[i].id = row.id THEN row ELSE db[i]]

\* main.py:173: replace('embed/', 'watch?v=').removesuffix('?rel=0')
VideoUrl(image_url) ==
    LET replaced ==
            [i \in DOMAIN image_url |->
                IF image_url[i] = "https://www.youtube.com/embed/"
                THEN "https://www.youtube.com/watch?v="
                ELSE image_url[i]]
    IN  IF replaced # <<>> /\ replaced[Len(replaced)] = "?rel=0"
        THEN SubSeq(replaced, 1, Len(replaced) - 1)
        ELSE replaced

\* ROOT_URL of the deployment, main.py:33: the origin site
RootUrl == <<"https://www.astronet.ru">>

\* the tokens that contain a character MarkdownV2 reserves ('.', '=', '?', ...)
MarkdownReserved ==
    {"https://www.astronet.ru", "https://images.astronet.ru/pubd/", "https://www.astronet.ru/i/",
     "https://www.youtube.com/embed/", "https://www.youtube.com/watch?v=", "?rel=0",
     "a.jpg", "b.jpg", ".jpg", "x.gif", "preview.gif", "??"}

\* telegram.helpers.escape_markdown(s, version=2): a backslash before every
\* reserved character; here one backslash token before a token that has one
RECURSIVE escape_markdown(_)
escape_markdown(s) ==
    IF s = <<>> THEN <<>>
    ELSE (IF Head(s) \in MarkdownReserved THEN <<"\\", Head(s)>> ELSE <<Head(s)>>)
         \o escape_markdown(Tail(s))

\* main.py:161-164
Caption(issue) ==
    <<"*">> \o escape_markdown(strip(issue.title)) \o <<"*", "\n\n">>
    \o escape_markdown(issue.body)
    \o <<"\n\n", "[... astronet\\.ru](">> \o escape_markdown(RootUrl \o issue.issue_url) \o <<")">>

\* main.py:172-190: the delivery call made for a row; `text` is the text of a
\* message and the caption of a photo
Delivery(issue, ok) ==
    IF ContainsYoutube(issue.image_url)
    THEN [id |-> issue.id, kind |-> "message", media |-> VideoUrl(issue.image_url),
          text |-> escape_markdown(VideoUrl(issue.image_url)) \o <<"\n\n">> \o Caption(issue),
          ok |-> ok]
    ELSE [id |-> issue.id, kind |-> "photo", media |-> issue.image_url,
          text |-> Caption(issue), ok |-> ok]

---------------------------------------------------------------------------
(* The scheduler loop, main.py:204-226. *)

\* local `retries` of get_last_issues
Retries == 5

\* a retry loop that never gives up
Exhausted_Never(r) == FALSE

\* `if retries == 0: raise`, main.py:91-92
Exhausted(r) == r = 0

\* a call started as a task of its own, going on while the loop goes on
Awaited_NotWaited(calls, id) == calls

\* `await bot.send_message(...)`, `await bot.send_photo(...)`, main.py:176 and
\* 184: the loop goes on when the call is over
Awaited(calls, id) == calls \ {id}

\* a delivery call with no handler around it
SendHandled_None == {}

\* main.py:181 and 189: `except Exception` around each delivery call
SendHandled == {"Exception"}

\* a handler for connect timeouts only
MainHandled_NoHTTPError == {"ConnectTimeout"}

\* the exception classes of `except (HTTPError, ConnectTimeout)`, main.py:223
MainHandled == {"HTTPError", "ConnectTimeout"}

\* What requests.get(url) of the listing page can do: raise, or return a
\* response with a status and a document.
ListingResponses ==
    [exc : {"none"}, status : {200}, content : {"ok"}, ntags : 0..MaxTags]
    \cup [exc : {"none"}, status : {200}, content : {"no_region"}, ntags : {0}]
    \cup [exc : {"none"}, status : {404, 503}, content : {"ok"}, ntags : {0}]
    \cup [exc : {"ConnectTimeout", "ConnectionError", "ReadTimeout"}, status : {0},
          content : {"ok"}, ntags : {0}]

NoListing == [exc |-> "none", status |-> 0, content |-> "ok", ntags |-> 0]

\* what the health-check GET of main.py:222 can do: answer with any status, or raise
PingResults == {"200", "500", "httpx.ConnectError", "httpx.ConnectTimeout"}

\* An exception e leaves the body of the try of main.py:210-222: the handler
\* of line 223 logs it and the loop goes on to the sleep of line 226, or the
\* exception leaves main() and the process ends.
MainRaise(e) ==
    /\ exc' = e
    /\ pc' = IF Catches(MainHandled, e) THEN "sleep" ELSE "terminated"

\* where main() goes on when get_last_issues returns `iss`
AfterExtract(iss) == IF Len(iss) = 0 THEN "select" ELSE "create"

\* The input conditions of a title block, for the log `blocks`: "ok" when the
\* block has every element, its detail page could be fetched and has at most
\* one qualifying image (or none and at most one qualifying embed), and its
\* body is Russian.
BlockKind(tag) ==
    LET d == tag.detail
        nimg == Len(SelectSeq(d.imgs, LAMBDA x : startswith(x, ImagePrefix)))
        nvid == Len(SelectSeq(d.iframes, LAMBDA x : startswith(x, EmbedPrefix)))
    IN  IF tag.shape # "ok" THEN "structural"
        ELSE IF d.fetch # "ok" THEN "detail_error"
        ELSE IF d.content = "no_region" THEN "structural"
        ELSE IF d.content = "ok" /\ (nimg > 1 \/ (nimg = 0 /\ nvid > 1)) THEN "ambiguous"
        ELSE IF "en" \in {tag.body[i] : i \in DOMAIN tag.body} THEN "foreign"
        ELSE IF "ru" \notin {tag.body[i] : i \in DOMAIN tag.body} THEN "undetected"
        ELSE "ok"

\* no detail page was requested yet
NoPage == [fetch |-> "none", content |-> "empty", imgs |-> <<>>, iframes |-> <<>>]

\* The table when the process starts.  models.py:3 and 6-8: the table is in
\* the file db.sqlite and init_db creates it only if it is absent, so the
\* process starts on a new table or on the rows an earlier process left, one
\* of which it had inserted and not yet published when it ended.
StoredBefore ==
    {<<>>,
     <<[id |-> 1, title |-> <<"t1">>, body |-> <<"ru", "b1">>, issue_url |-> <<"/db/1">>,
        image_url |-> ImagePrefix \o <<"a.jpg">>, pub_date |-> 1, published |-> FALSE]>>}

Init ==
    /\ pc = "fetch"
    /\ store \in StoredBefore
    /\ listing = NoListing
    /\ retries = Retries
    /\ blocks = <<>>
    /\ lastPage = NoPage
    /\ issues = <<>>
    /\ idx = 1
    /\ createLog = <<>>
    /\ queue = <<>>
    /\ inflight = {}
    /\ sent = <<>>
    /\ exc = "none"

\* main.py:76-80: the listing request and the status check
GetListing ==
    /\ pc = "fetch"
    /\ \E r \in ListingResponses :
        /\ listing' = r
        /\ IF r.exc # "none" THEN MainRaise(r.exc)
           ELSE IF r.status # 200 THEN MainRaise("HTTPError")
           ELSE pc' = "parse" /\ exc' = exc
    /\ retries' = Retries
    /\ UNCHANGED <<store, blocks, lastPage, issues, idx, createLog, queue, inflight, sent>>

\* main.py:84-93: one attempt to find the title blocks
ParseListing ==
    /\ pc = "parse"
    /\ IF listing.content = "ok"
       THEN /\ pc' = IF listing.ntags = 0 THEN AfterExtract(issues) ELSE "tags"
            /\ UNCHANGED <<retries, exc>>
       ELSE /\ retries' = retries - 1
            /\ IF Exhausted(retries') THEN MainRaise("AttributeError")
               ELSE pc' = "parse" /\ exc' = exc
    /\ UNCHANGED <<store, listing, blocks, lastPage, issues, idx, createLog, queue, inflight, sent>>

\* main.py:95-134: one iteration of the loop over the title blocks, the block
\* being one of `served`
ProcessTagFrom(served) ==
    /\ pc = "tags"
    /\ \E tag \in served :
        LET r == TitleTagIteration(tag)
            iss == IF r.kind = "append" THEN Append(issues, r.issue) ELSE issues
        IN  /\ blocks' = Append(blocks, BlockKind(tag))
            /\ lastPage' = tag.detail
            /\ issues' = iss
            /\ IF r.kind = "raise" THEN MainRaise(r.exc)
               ELSE /\ pc' = IF Len(blocks') = listing.ntags THEN AfterExtract(iss) ELSE "tags"
                    /\ exc' = exc
    /\ UNCHANGED <<store, listing, retries, idx, createLog, queue, inflight, sent>>

\* main.py:213-214: one iteration of `for issue in issues: create_issue(issue)`
CreateIssue ==
    /\ pc = "create"
    /\ \E fault \in BOOLEAN :
        LET r == create_issue(store, issues[idx], fault)
        IN  /\ store' = r.db
            /\ createLog' = Append(createLog, r.outcome)
            /\ IF r.exc # "none" THEN MainRaise(r.exc)
               ELSE /\ pc' = IF idx = Len(issues) THEN "select" ELSE "create"
                    /\ exc' = exc
    /\ idx' = idx + 1
    /\ blocks' = <<>>
    /\ lastPage' = NoPage
    /\ UNCHANGED <<listing, retries, issues, queue, inflight, sent>>

\* main.py:216-220 and 160: the query, its truth test and the sort
SelectUnpublished ==
    /\ pc = "select"
    /\ LET unpublished == get_unpublished(store)
       IN  IF unpublished = {}
           THEN pc' = "ping" /\ queue' = <<>>
           ELSE /\ pc' = "publish"
                /\ \E order \in Orders(unpublished) : queue' = SortedByPubDate(order)
    /\ blocks' = <<>>
    /\ lastPage' = NoPage
    /\ UNCHANGED <<store, listing, retries, issues, idx, createLog, inflight, sent, exc>>

\* main.py:160-188: the head of one iteration of the delivery loop, up to the
\* await of the delivery call
SendIssue ==
    /\ pc = "publish"
    /\ queue # <<>>
    /\ inflight' = inflight \cup {Head(queue).id}
    /\ pc' = "sending"
    /\ UNCHANGED <<store, listing, retries, blocks, lastPage, issues, idx, createLog, queue, sent, exc>>

\* main.py:176-197: the rest of the iteration: the delivery call returns (`ok`)
\* or raises, the handler, the save and the pause
Publish(ok) ==
    /\ pc = "sending"
    /\ LET issue == Head(queue)
           err == IF ok THEN "none" ELSE "TelegramError"
       IN  /\ sent' = Append(sent, Delivery(issue, ok))
           /\ inflight' = Awaited(inflight, issue.id)
           /\ IF err # "none" /\ ~Catches(SendHandled, err)
              THEN MainRaise(err) /\ UNCHANGED <<store, queue>>
              ELSE /\ store' = Save(store, [issue EXCEPT !.published = TRUE])
                   /\ queue' = Tail(queue)
                   /\ pc' = IF queue' = <<>> THEN "ping" ELSE "publish"
                   /\ exc' = exc
    /\ UNCHANGED <<listing, retries, blocks, lastPage, issues, idx, createLog>>

PublishIssue == \E ok \in BOOLEAN : Publish(ok)

\* main.py:222: the health-check ping, the last statement of the cycle; the
\* locals and the logs of the cycle end with it
Ping ==
    /\ pc = "ping"
    /\ \E r \in PingResults :
        IF r \in {"httpx.ConnectError", "httpx.ConnectTimeout"} THEN MainRaise(r)
        ELSE pc' = "sleep" /\ exc' = exc
    /\ listing' = NoListing
    /\ issues' = <<>>
    /\ idx' = 1
    /\ createLog' = <<>>
    /\ sent' = <<>>
    /\ UNCHANGED <<store, retries, blocks, lastPage, queue, inflight>>

\* main.py:226 and back to 209: the idle wait, after which the next cycle starts
Sleep ==
    /\ pc = "sleep"
    /\ pc' = "fetch"
    /\ listing' = NoListing
    /\ retries' = Retries
    /\ exc' = "none"
    /\ UNCHANGED <<store, blocks, lastPage, issues, idx, createLog, queue, inflight, sent>>

ProcessTag == ProcessTagFrom(ListedBlocks)

ProcessAnyTag == ProcessTagFrom(TitleBlocks)

\* The service on listings of ListedBlocks, of every date.
Next ==
    \/ GetListing
    \/ ParseListing
    \/ ProcessTag
    \/ CreateIssue
    \/ SelectUnpublished
    \/ SendIssue
    \/ PublishIssue
    \/ Ping
    \/ Sleep

Spec == Init /\ [][Next]_vars

\* The service on listings of TitleBlocks, of every shape.
NextExtract ==
    \/ GetListing
    \/ ParseListing
    \/ ProcessAnyTag
    \/ CreateIssue
    \/ SelectUnpublished
    \/ SendIssue
    \/ PublishIssue
    \/ Ping
    \/ Sleep

ExtractSpec == Init /\ [][NextExtract]_vars

\* the ids the table can hold: one row per path the listing can link to
IssueIds == 1..Cardinality({IssueUrl(h) : h \in Hrefs})

\* a delivery call the channel accepts, for row id
DeliverOk(id) == Publish(TRUE) /\ Head(queue).id = id

\* The loop keeps running, and a delivery that is attempted again and again
\* for a row is accepted in the end.
FairSpec ==
    /\ Init
    /\ [][Next]_vars
    /\ WF_vars(Next)
    /\ \A id \in IssueIds : SF_vars(DeliverOk(id))

---------------------------------------------------------------------------
(* The claims. *)

\* get_last_issues has just returned to main()
JustReturned == (pc = "create" /\ idx = 1) \/ (pc = "select" /\ issues = <<>>)

\* the number of title blocks processed so far that are of kind k
CountKind(k) == Cardinality({i \in DOMAIN blocks : blocks[i] = k})

\* the number of rows create_issue has inserted in this cycle
NCreated == Cardinality({k \in DOMAIN createLog : createLog[k] = "created"})

\* C1: the table holds at most one row per issue_url, and a create_issue call
\* for an issue_url that is already stored leaves the table as it is and
\* raises nothing to main().
C1_InsertIdempotent ==
    /\ [](\A i, j \in DOMAIN store : store[i].issue_url = store[j].issue_url => i = j)
    /\ [][(pc = "create" /\ \E i \in DOMAIN store : store[i].issue_url = issues[idx].issue_url)
            => (store' = store /\ exc' = "none" /\ pc' \in {"create", "select"})]_vars

\* C1 witness: a create_issue call of this cycle hit the UNIQUE constraint (its
\* candidate has a media link, so no other constraint failed).
C1_Witness ==
    \E k \in DOMAIN createLog :
        /\ createLog[k] = "integrity"
        /\ issues[k].image_url # None
        /\ \E i \in DOMAIN store : store[i].issue_url = issues[k].issue_url

\* C2: a row that is published stays published in every later step, also when
\* its issue_url is ingested again, and is never among the rows publish_issues
\* still has to visit.
C2_PublishedMonotonic ==
    /\ [](\A i \in DOMAIN store : store[i].published =>
            \A k \in DOMAIN queue : queue[k].id # store[i].id)
    /\ [][\A i \in DOMAIN store : store[i].published =>
            (i \in DOMAIN store' /\ store'[i].id = store[i].id /\ store'[i].published)]_vars

\* C2 witness: create_issue was called for the issue_url of a published row,
\* and a later query for the unpublished rows has been made.
C2_Witness ==
    /\ pc = "ping"
    /\ \E i \in DOMAIN store, k \in DOMAIN createLog :
        /\ store[i].published
        /\ store[i].id \notin {sent[n].id : n \in DOMAIN sent}
        /\ issues[k].issue_url = store[i].issue_url
        /\ issues[k].image_url # None

\* C3: within one publish_issues run the delivery calls are made in ascending
\* pub_date order: no call is made for a row while a row of an earlier date is
\* still to be delivered, in whatever order the query returned the rows.
C3_PublicationOrder ==
    /\ \A i, j \in DOMAIN sent :
        i < j => store[sent[i].id].pub_date <= store[sent[j].id].pub_date
    /\ \A i \in DOMAIN sent, k \in DOMAIN queue :
        store[sent[i].id].pub_date <= queue[k].pub_date

\* C3 witness: two rows were delivered in one run, the earlier date first,
\* against the order of their ids.
C3_Witness ==
    /\ Len(sent) = 2
    /\ sent[1].id > sent[2].id
    /\ store[sent[1].id].pub_date < store[sent[2].id].pub_date

\* C4 (as claimed): every row that is ever stored is, in a process that keeps
\* running, at some time delivered with the channel accepting the call.
C4_AtLeastOnce ==
    \A id \in IssueIds :
        \/ [](id \notin DOMAIN store)
        \/ <>(pc = "terminated")
        \/ <>(\E k \in DOMAIN sent : sent[k].id = id /\ sent[k].ok)

\* the case of C5: the listing gave one candidate, its media link is a
\* qualifying image, its issue_url was not stored before this cycle, the
\* storage engine did not fail, and the create loop is over
C5_Case ==
    /\ pc \in {"select", "publish", "sending", "ping"}
    /\ Len(issues) = 1
    /\ Len(createLog) = 1
    /\ startswith(issues[1].image_url, ImagePrefix)
    /\ createLog[1] # "error"
    /\ \A i \in 1..(Len(store) - NCreated) : store[i].issue_url # issues[1].issue_url

C6_NonSuccessSkipsCycle ==
    /\ [][(pc = "fetch" /\ listing'.exc = "none" /\ listing'.status # 200)
            => (pc' = "sleep" /\ store' = store /\ sent' = sent /\ queue' = queue)]_vars
    /\ [][pc = "sleep" => (pc' = "fetch" /\ store' = store /\ sent' = sent)]_vars
    /\ []((pc = "sleep" /\ exc = "HTTPError") => ENABLED Sleep)

\* C6 witness: the loop is in its idle wait after a 503 listing response, with
\* rows in the table.
C6_Witness ==
    /\ pc = "sleep"
    /\ listing.exc = "none"
    /\ listing.status = 503
    /\ exc = "HTTPError"
    /\ store # <<>>

\* C7 (as claimed): whenever the listing request fails to connect or times
\* out, the loop goes on to its idle wait.
C7_ConnectivityCaught ==
    [][(pc = "fetch" /\ listing'.exc \in {"ConnectTimeout", "ConnectionError", "ReadTimeout"})
        => pc' = "sleep"]_vars

\* C8 (as claimed): when the health-check ping fails, the loop goes on to its
\* idle wait with the table as it was.
C8_PingFailureSwallowed ==
    [][(pc = "ping" /\ exc' \in {"httpx.ConnectError", "httpx.ConnectTimeout"})
        => (pc' = "sleep" /\ store' = store)]_vars

\* C9: no candidate and no row has a body that is not detected as Russian; a
\* block whose language is another one or cannot be detected is not appended,
\* ends neither the process nor the loop over the title blocks, which returns
\* only when every block of the listing was processed.
C9_LanguageGate ==
    /\ \A k \in DOMAIN issues : detect(issues[k].body) = Return(<<"ru">>)
    /\ \A i \in DOMAIN store : detect(store[i].body) = Return(<<"ru">>)
    /\ exc # "LangDetectException"
    /\ (pc = "tags" \/ JustReturned) =>
        Len(issues) <= Len(blocks) - CountKind("foreign") - CountKind("undetected")
    /\ pc = "tags" => Len(blocks) < listing.ntags
    /\ JustReturned => Len(blocks) = listing.ntags

\* C9 witness: the extraction returned a candidate it found after a block in
\* another language and a block whose language could not be detected.
C9_Witness ==
    /\ JustReturned
    /\ Len(blocks) = MaxTags
    /\ blocks[Len(blocks)] = "ok"
    /\ \E i \in DOMAIN blocks : blocks[i] \in {"foreign", "undetected"}
    /\ Len(issues) = 1

\* C10: a block whose detail page has several qualifying images (or no image
\* and several qualifying embeds) is skipped and nothing else is: the
\* candidates are exactly the blocks without a defect, every block was
\* processed when the extraction returns, and the ValueError ends nothing.
C10_AmbiguityRule ==
    /\ (pc = "tags" \/ JustReturned) => Len(issues) = CountKind("ok")
    /\ JustReturned => Len(blocks) = listing.ntags
    /\ exc # "ValueError"

\* C10 witness: the extraction returned the candidate of a block that followed
\* an ambiguous one.
C10_Witness ==
    /\ JustReturned
    /\ Len(blocks) = MaxTags
    /\ blocks[1] = "ambiguous"
    /\ blocks[Len(blocks)] = "ok"
    /\ Len(issues) = 1

\* the sources of a detail page that start with prefix, in document order
Qualifying(srcs, prefix) == SelectSeq(srcs, LAMBDA x : startswith(x, prefix))

\* the title block processed last went through every check and was appended
LastAppended == blocks # <<>> /\ blocks[Len(blocks)] = "ok" /\ issues # <<>>

\* C11: when the detail page of a block has exactly one qualifying image, the
\* candidate's media link is that image's source, whatever video embeds the
\* page has; the media link is a video embed only when the page has no
\* qualifying image.
C11_MediaPrecedence ==
    LastAppended =>
        LET imgs == Qualifying(lastPage.imgs, ImagePrefix)
            media == issues[Len(issues)].image_url
        IN  /\ (lastPage.content = "ok" /\ Len(imgs) = 1) => media = imgs[1]
            /\ startswith(media, EmbedPrefix) => imgs = <<>>

\* a page with one qualifying image and two qualifying embeds gave the image
C11_Witness ==
    /\ LastAppended
    /\ Len(Qualifying(lastPage.imgs, ImagePrefix)) = 1
    /\ Len(Qualifying(lastPage.iframes, EmbedPrefix)) = 2
    /\ issues[Len(issues)].image_url = ImagePrefix \o <<"a.jpg">>

\* C12 (as claimed): a row whose media link is a video-embed reference is
\* delivered as a text message that begins with the rewritten watch link and
\* goes on with the caption; every other row is delivered as a photo with the
\* caption.
C12_DeliveryKind ==
    \A k \in DOMAIN sent :
        LET row == store[sent[k].id]
        IN  IF startswith(row.image_url, EmbedPrefix)
            THEN /\ sent[k].kind = "message"
                 /\ sent[k].text = escape_markdown(VideoUrl(row.image_url)) \o <<"\n\n">> \o Caption(row)
            ELSE /\ sent[k].kind = "photo"
                 /\ sent[k].media = row.image_url
                 /\ sent[k].text = Caption(row)

\* the half of C12 the code keeps: a video-embed reference always goes out as
\* a text message with the watch link and the caption, and whatever goes out
\* as a photo is not a video-embed reference
C12_EmbedsAreMessages ==
    \A k \in DOMAIN sent :
        LET row == store[sent[k].id]
        IN  /\ startswith(row.image_url, EmbedPrefix) =>
                /\ sent[k].kind = "message"
                /\ sent[k].text = escape_markdown(VideoUrl(row.image_url)) \o <<"\n\n">> \o Caption(row)
                /\ startswith(sent[k].text, <<"\\", "https://www.youtube.com/watch?v=", "v1", "\n\n", "*">>)
            /\ sent[k].kind = "photo" =>
                /\ ~startswith(row.image_url, EmbedPrefix)
                /\ sent[k].media = row.image_url /\ sent[k].text = Caption(row)

\* C13: a delivery call that fails is caught inside its own iteration: nothing
\* reaches main(), the row is marked published and saved all the same, and
\* the run goes on to the delivery of every row that remains: until the run is
\* over, the rows still unpublished are exactly the rows still in the queue.
C13_DeliveryFailureCaught ==
    /\ [][(pc = "sending" /\ ~sent'[Len(sent')].ok) =>
            /\ pc' = (IF Tail(queue) = <<>> THEN "ping" ELSE "publish")
            /\ exc' = exc
            /\ store'[Head(queue).id].published
            /\ queue' = Tail(queue)]_vars
    /\ [](pc = "publish" => ENABLED SendIssue)
    /\ [](pc \in {"publish", "sending", "ping"} =>
            /\ {queue[k].id : k \in DOMAIN queue} = {i \in DOMAIN store : ~store[i].published}
            /\ \A k \in DOMAIN sent : store[sent[k].id].published)

\* C13 witness: the first delivery of a run failed, its row is published, and
\* the delivery of the next row was made after it
C13_Witness ==
    /\ Len(sent) = 2
    /\ ~sent[1].ok
    /\ store[sent[1].id].published
    /\ store[sent[2].id].published

\* C14 (as claimed): a well-formed Russian block whose detail page could not
\* be fetched is returned as a candidate all the same, its media link being
\* the inline preview or nothing, and the blocks after it are processed.
C14_DetailFailureKeepsEntry ==
    /\ (pc = "tags" \/ JustReturned) =>
        Len(issues) = CountKind("ok") + CountKind("detail_error")
    /\ (LastAppended /\ lastPage.fetch # "ok") =>
        issues[Len(issues)].image_url \in {None, PreviewSrc}
    /\ JustReturned => Len(blocks) = listing.ntags

\* C15 (as claimed): no failure to find an element of the listing document or
\* of a title block ends the process: neither the search for the title blocks
\* nor the processing of a block is ever followed by the end of the process.
C15_StructuralNeverEscalates ==
    [][(pc = "parse" \/ pc = "tags") => pc' # "terminated"]_vars

\* the half of C15 the code keeps: a failure inside one title block never
\* leaves the loop over the blocks
C15_BlockFailuresContained ==
    [][pc = "tags" => (pc' # "terminated" /\ exc' = exc)]_vars

\* C16: the search for the title blocks is attempted at most Retries times per
\* cycle: every failed attempt uses up one of the Retries, an attempt is only
\* made while one is left, and what follows an attempt is the next attempt,
\* the processing of the title blocks, or the exception raised to main() by
\* the attempt that used up the last one.
C16_BoundedRetry ==
    /\ [](retries \in 0..Retries)
    /\ [](pc = "parse" => retries >= 1)
    /\ [](retries = 0 => (pc = "terminated" /\ exc = "AttributeError"))
    /\ [][pc = "parse" =>
            \/ pc' = "parse" /\ retries' = retries - 1
            \/ pc' \in {"tags", "select"} /\ retries' = retries
            \/ pc' = "terminated" /\ retries = 1 /\ retries' = 0]_vars

\* C16 witness: Retries attempts failed and the last one raised
C16_Witness ==
    /\ pc = "terminated"
    /\ retries = 0
    /\ exc = "AttributeError"
    /\ listing.content = "no_region"

\* C17: no step removes a row of the table, and no step changes the id, title,
\* body, issue_url, image_url or pub_date of a row: a row only ever changes in
\* its published flag.
C17_AppendOnly ==
    [][\A i \in DOMAIN store :
        /\ i \in DOMAIN store'
        /\ store'[i] = [store[i] EXCEPT !.published = store'[i].published]]_vars

\* C17 witness: the create loop was given a candidate with the issue_url of a
\* row stored by an earlier cycle and another title, body, media link and date, and the row is as
\* it was
C17_Witness ==
    \E k \in DOMAIN createLog, i \in 1..(Len(store) - NCreated) :
        /\ createLog[k] = "integrity"
        /\ issues[k].issue_url = store[i].issue_url
        /\ issues[k].title # store[i].title
        /\ issues[k].body # store[i].body
        /\ issues[k].image_url \notin {None, store[i].image_url}
        /\ issues[k].pub_date # store[i].pub_date

\* C18: at most one delivery call is in flight at any time, the one for the
\* row at the head of the queue; when a call is in flight, every row a call
\* was made for earlier in the run is saved as published and the row of the
\* call is not yet; and the published flag of a row is set only by the step
\* in which its own call ends.
C18_SerializedDelivery ==
    /\ [](Cardinality(inflight) <= 1)
    /\ [](inflight # {} <=> pc = "sending")
    /\ [](pc = "sending" =>
            /\ inflight = {Head(queue).id}
            /\ ~store[Head(queue).id].published
            /\ \A k \in DOMAIN sent : store[sent[k].id].published)
    /\ [][\A i \in DOMAIN store :
            (~store[i].published /\ store'[i].published) =>
                /\ inflight = {i} /\ inflight' = {}
                /\ sent' = Append(sent, sent'[Len(sent')]) /\ sent'[Len(sent')].id = i]_vars

\* C18 witness: the second call of a run is in flight, after a first call
\* whose row is saved as published
C18_Witness ==
    /\ pc = "sending"
    /\ Len(sent) = 1
    /\ inflight = {Head(queue).id}
    /\ sent[1].id \notin inflight
    /\ store[sent[1].id].published

\* C19 (as claimed): a candidate with no media link (no qualifying image or
\* embed on its detail page and no inline preview) is stored by the create
\* loop like any other, with no media link: unless the storage engine fails,
\* once the loop has gone over it the table has a row of its issue_url.
C19_MediaOptional ==
    \A k \in DOMAIN createLog :
        (issues[k].image_url = None /\ createLog[k] # "error") =>
            \E i \in DOMAIN store : store[i].issue_url = issues[k].issue_url

\* what the code does instead: the insert of a candidate with no media link
\* always fails, and no row of the table is ever without a media link
C19_MediaRequired ==
    /\ \A k \in DOMAIN createLog :
        issues[k].image_url = None => createLog[k] \in {"integrity", "error"}
    /\ \A i \in DOMAIN store : store[i].image_url # None

\* C20 (as claimed): whenever the loop is in its idle wait, every row of the
\* table is published.
C20_BacklogDrained ==
    pc = "sleep" => \A i \in DOMAIN store : store[i].published

\* C20 (amended): whenever the loop is in its idle wait after a cycle that ran
\* to its end, every row of the table is published, whether or not its
\* delivery succeeded, and so are the rows when the delivery run is over; a
\* cycle that ends at its listing request leaves the table as it found it.
C20_DrainedByFullCycle ==
    /\ []((pc = "ping" \/ (pc = "sleep" /\ exc = "none")) =>
            \A i \in DOMAIN store : store[i].published)
    /\ [][pc = "fetch" => (store' = store /\ pc' \in {"parse", "sleep", "terminated"})]_vars
    /\ [][pc' = "sleep" => (pc = "ping" \/ pc = "fetch")]_vars

\* C20 witness: the idle wait after a full cycle, with two rows in the table
C20_Witness ==
    /\ pc = "sleep"
    /\ exc = "none"
    /\ Len(store) >= 2
    /\ \A i \in DOMAIN store : store[i].published

===========================================================================
